---- MODULE Spec2Model ----
(***************************************************************************)
(* Model of bin/sync_muk_projects.py: the run coordinator main(), the      *)
(* per-institute functions force_nfs_mounts, process_institute and the     *)
(* per-user provisioner process().                                         *)
(*                                                                         *)
(* Four specifications share the variables:                                *)
(*   Spec      one run of main() (lines 118-215);                          *)
(*   SpecInst  force_nfs_mounts followed by process_institute/process for  *)
(*             every institute it returned (lines 52-115);                 *)
(*   SpecIdem  process() called twice on the same users (lines 79-100);    *)
(*   SpecConc  overlapping invocations of main() sharing the lockfile.     *)
(* Calls into the vsc libraries are modelled by their outcome (returns or  *)
(* raises), drawn nondeterministically.                                    *)
(***************************************************************************)
EXTENDS Integers, Sequences, FiniteSets, TLC

\* ------------------------------------------------------------------ bounds
MaxProjects == 2    \* largest len(muk_group.memberUid) explored
MaxUsers == 2       \* largest len(changed_users) explored
MaxTime == 2        \* latest value of the clock read by convert_timestamp()
NumProcs == 2       \* number of overlapping invocations of the script

\* --------------------------------------------------------------- constants
NAGIOS_EXIT_OK == 0
NAGIOS_EXIT_WARNING == 1
NAGIOS_EXIT_CRITICAL == 2
NAGIOS_EXIT_UNKNOWN == 3
\* exit status of the interpreter when main() ends with an uncaught exception
EXIT_UNCAUGHT == 1
\* exit status of the interpreter when main() returns
EXIT_RETURN == 0
\* exitCode while the process is still running
NoExit == 0 - 1

ANTWERPEN == "antwerpen"
BRUSSEL == "brussel"
GENT == "gent"
LEUVEN == "leuven"

VARIABLES
    \* ---- main()
    pc,             \* position of main()
    dry_run,        \* opts.options.dry_run
    nagios,         \* opts.options.nagios
    ha_master,      \* what proceed_on_ha_service(opts.options.ha) answers
    cacheFile,      \* status held by the nagios cache file before the run
    cached,         \* statuses passed to nagios_reporter.cache in this run
    lockHeld,       \* the lockfile is held by this process
    acquired,       \* number of successful lockfile.acquire()
    released,       \* number of lockfile.release() invocations
    clock,          \* time that convert_timestamp() will return
    timestamp,      \* contents of SYNC_TIMESTAMP_FILENAME
    tsWrites,       \* number of write_timestamp invocations
    tsRaised,       \* the try block of lines 201-206 raised
    nProjects,      \* len(muk_group.memberUid)
    pidx,           \* index of the next project in muk_projects
    projects_ok,
    projects_fail,
    processed,      \* number of process_project calls made
    raisedAt,       \* value of processed when the try block raised, or NoExit
    exitCode,       \* exit status of the process, NoExit while running
    uncaught        \* the process ended with an uncaught exception

mainVars == <<pc, dry_run, nagios, ha_master, cacheFile, cached, lockHeld,
              acquired, released, clock, timestamp, tsWrites, tsRaised,
              nProjects, pidx, projects_ok, projects_fail, processed,
              raisedAt, exitCode, uncaught>>

VARIABLES
    \* ---- force_nfs_mounts, process_institute, process
    ipc,            \* position in the per-institute code
    fidx,           \* force_nfs_mounts: index of the next institute
    nfs_mounts,     \* force_nfs_mounts: the list being built / returned
    statted,        \* institutes whose link force_nfs_mounts has stat'ed
    didx,           \* index of the next institute of nfs_mounts to process
    institute,      \* process_institute: the institute argument
    changed_users,  \* process_institute: result of MukUser.lookup
    lookedUp,       \* institutes MukUser.lookup was queried for
    statOk,         \* process_institute: outcome of os.stat(nfs_location)
    uidx,           \* process: index of the current user
    stepNo,         \* process: the next provisioning step of that user
    user_dry,       \* user.dry_run of every changed user
    calls,          \* provisioning calls of this process_institute call
    provisioned,    \* institutes for which a provisioning step was invoked
    raisedStep,     \* per user: the step that raised, 0 when none did
    p_error_users,  \* process: its local error_users (line 88)
    error_users,    \* process_institute: error_users
    error_bound,    \* process_institute: error_users has been assigned
    result,         \* process_institute: <<ok, fail>> returned, <<>> before
    iraised         \* exception that left process_institute, "none" if none

instVars == <<ipc, fidx, nfs_mounts, statted, didx, institute, changed_users,
              lookedUp, statOk, uidx, stepNo, user_dry, calls, provisioned,
              raisedStep, p_error_users, error_users, error_bound, result,
              iraised>>

VARIABLES
    \* ---- state of the provisioned entities, and a second call of process()
    prov,           \* per changed user: the steps whose artefact exists
    pass,           \* which call of process() on the same users is running
    prov1,          \* prov when the first call of process() returned
    \* ---- the timestamp file as an input
    tsReads         \* number of reads of SYNC_TIMESTAMP_FILENAME in main()

provVars == <<prov, pass, prov1>>

VARIABLES
    \* ---- several invocations of the script sharing the lockfile
    cpc,            \* per invocation: position of main()
    owner,          \* invocation whose pid is in the lockfile, 0 when absent
    cleft,          \* per invocation: projects still to process
    cfail,          \* per invocation: projects_fail > 0
    ops             \* provisioning calls and timestamp writes made so far

concVars == <<cpc, owner, cleft, cfail, ops>>

vars == <<mainVars, instVars, provVars, tsReads, concVars>>

\* statuses a cache file can hold; "none" is a missing or stale file
CacheStates == {"none", "OK", "WARNING", "CRITICAL"}

\* NagiosReporter.report_and_exit: exits with the cached status, or UNKNOWN
\* when there is no usable cache file.  The sys.exit(0) of line 143 is
\* "not reached".
report_and_exit_code(cf) ==
    CASE cf = "OK" -> NAGIOS_EXIT_OK
      [] cf = "WARNING" -> NAGIOS_EXIT_WARNING
      [] cf = "CRITICAL" -> NAGIOS_EXIT_CRITICAL
      [] OTHER -> NAGIOS_EXIT_UNKNOWN

\* mutant of NagiosOnly: the --nagios test is lost
NagiosOnly_mut(n) == FALSE

\* line 141: if opts.options.nagios
NagiosOnly(n) == n

\* mutant of HAStops: the HA answer is ignored
HAStops_mut(proceed) == FALSE

\* line 147: if not proceed_on_ha_service(opts.options.ha)
HAStops(proceed) == ~proceed

\* mutant of HAExitCode: the HA gate exits with the OK code
HAExitCode_mut == NAGIOS_EXIT_OK

\* line 151: sys.exit(NAGIOS_EXIT_WARNING)
HAExitCode == NAGIOS_EXIT_WARNING

\* outcomes of a process_project(opts.options, project) call (line 177):
\* truthy, falsy, or an exception.  process_project is not defined in the
\* module; its outcome is left unconstrained.
process_project_outcomes == {"ok", "fail", "raise"}

\* line 197: if projects_fail > 0 -> WARNING branch, else the timestamp branch
FailBranch(fail) == fail > 0

\* mutant of WritesTimestamp: the dry_run test is lost
WritesTimestamp_mut(fail, dry) == ~FailBranch(fail)

\* lines 204-205: write_timestamp is invoked when the else branch is taken
\* and dry_run is not set
WritesTimestamp(fail, dry) == ~FailBranch(fail) /\ ~dry

\* mutant of EvalStatus: the except clause of lines 207-210 caches OK
EvalStatus_mut(fail, dry, wrRaised) ==
    IF FailBranch(fail) THEN "WARNING" ELSE "OK"

\* lines 197-210: the status handed to nagios_reporter.cache; wrRaised says
\* that write_timestamp raised
EvalStatus(fail, dry, wrRaised) ==
    IF FailBranch(fail) THEN "WARNING"
    ELSE IF WritesTimestamp(fail, dry) /\ wrRaised THEN "WARNING"
    ELSE "OK"

MainInit ==
    /\ pc = "start"
    /\ dry_run \in BOOLEAN
    /\ nagios \in BOOLEAN
    /\ ha_master \in BOOLEAN
    /\ cacheFile \in CacheStates
    /\ cached = <<>>
    /\ lockHeld = FALSE
    /\ acquired = 0
    /\ released = 0
    /\ clock \in 1..MaxTime
    /\ timestamp \in 0..(clock - 1)
    /\ tsWrites = 0
    /\ tsRaised = FALSE
    /\ nProjects \in 0..MaxProjects
    /\ pidx = 1
    /\ projects_ok = 0
    /\ projects_fail = 0
    /\ processed = 0
    /\ raisedAt = NoExit
    /\ exitCode = NoExit
    /\ uncaught = FALSE

\* lines 141-143
ReportAndExit ==
    /\ pc = "start"
    /\ NagiosOnly(nagios)
    /\ pc' = "done"
    /\ exitCode' = report_and_exit_code(cacheFile)
    /\ UNCHANGED <<dry_run, nagios, ha_master, cacheFile, cached, lockHeld,
                   acquired, released, clock, timestamp, tsWrites, tsRaised,
                   nProjects, pidx, projects_ok, projects_fail, processed,
                   raisedAt, uncaught>>
    /\ UNCHANGED <<instVars, provVars, tsReads, concVars>>

\* lines 147-151, not the HA master
HAGateStop ==
    /\ pc = "start"
    /\ ~NagiosOnly(nagios)
    /\ HAStops(ha_master)
    /\ cached' = Append(cached, "WARNING")
    /\ exitCode' = HAExitCode
    /\ pc' = "done"
    /\ UNCHANGED <<dry_run, nagios, ha_master, cacheFile, lockHeld,
                   acquired, released, clock, timestamp, tsWrites, tsRaised,
                   nProjects, pidx, projects_ok, projects_fail, processed,
                   raisedAt, uncaught>>
    /\ UNCHANGED <<instVars, provVars, tsReads, concVars>>

\* lines 147-151, the HA master: fall through to the lock
HAGatePass ==
    /\ pc = "start"
    /\ ~NagiosOnly(nagios)
    /\ ~HAStops(ha_master)
    /\ pc' = "lock"
    /\ UNCHANGED <<dry_run, nagios, ha_master, cacheFile, cached, lockHeld,
                   acquired, released, clock, timestamp, tsWrites, tsRaised,
                   nProjects, pidx, projects_ok, projects_fail, processed,
                   raisedAt, exitCode, uncaught>>
    /\ UNCHANGED <<instVars, provVars, tsReads, concVars>>

\* lines 153-154, lock_or_bork: acquire the lock, or report CRITICAL and exit
LockOrBork ==
    /\ pc = "lock"
    /\ \E free \in BOOLEAN :
         IF free
         THEN /\ lockHeld' = TRUE
              /\ acquired' = acquired + 1
              /\ pc' = "bootstrap"
              /\ UNCHANGED <<cached, exitCode>>
         ELSE /\ cached' = Append(cached, "CRITICAL")
              /\ exitCode' = NAGIOS_EXIT_CRITICAL
              /\ pc' = "done"
              /\ UNCHANGED <<lockHeld, acquired>>
    /\ UNCHANGED <<dry_run, nagios, ha_master, cacheFile, released, clock,
                   timestamp, tsWrites, tsRaised, nProjects, pidx,
                   projects_ok, projects_fail, processed, raisedAt, uncaught>>
    /\ UNCHANGED <<instVars, provVars, tsReads, concVars>>

\* lines 157-174: Muk(), the LDAP binding, Group.lookup(...)[0] (IndexError ->
\* logger.raiseException), the list of MukProject objects and the counters.
\* The module binds neither MukProject nor process_project, so with a
\* non-empty memberUid line 171 raises NameError (outcome "raise"); the
\* outcome "ok" with projects to process stands for the module with the two
\* names bound.
Bootstrap ==
    /\ pc = "bootstrap"
    /\ \E outcome \in {"ok", "raise"} :
         IF outcome = "ok"
         THEN /\ pc' = "loop"
              /\ pidx' = 1
              /\ projects_ok' = 0
              /\ projects_fail' = 0
              /\ UNCHANGED raisedAt
         ELSE /\ pc' = "except"
              /\ raisedAt' = processed
              /\ UNCHANGED <<pidx, projects_ok, projects_fail>>
    /\ UNCHANGED <<dry_run, nagios, ha_master, cacheFile, cached, lockHeld,
                   acquired, released, clock, timestamp, tsWrites, tsRaised,
                   nProjects, processed, exitCode, uncaught>>
    /\ UNCHANGED <<instVars, provVars, tsReads, concVars>>

\* lines 176-180: one iteration of the loop over muk_projects
ProcessProject ==
    /\ pc = "loop"
    /\ pidx <= nProjects
    /\ processed' = processed + 1
    /\ \E r \in process_project_outcomes :
         CASE r = "ok" ->
                /\ projects_ok' = projects_ok + 1
                /\ pidx' = pidx + 1
                /\ UNCHANGED <<projects_fail, pc, raisedAt>>
           [] r = "fail" ->
                /\ projects_fail' = projects_fail + 1
                /\ pidx' = pidx + 1
                /\ UNCHANGED <<projects_ok, pc, raisedAt>>
           [] OTHER ->
                /\ pc' = "except"
                /\ raisedAt' = processed'
                /\ UNCHANGED <<projects_ok, projects_fail, pidx>>
    /\ UNCHANGED <<dry_run, nagios, ha_master, cacheFile, cached, lockHeld,
                   acquired, released, clock, timestamp, tsWrites, tsRaised,
                   nProjects, exitCode, uncaught>>
    /\ UNCHANGED <<instVars, provVars, tsReads, concVars>>

\* line 176: the loop is exhausted, the try block ends without an exception
LoopEnd ==
    /\ pc = "loop"
    /\ pidx > nProjects
    /\ pc' = "eval"
    /\ UNCHANGED <<dry_run, nagios, ha_master, cacheFile, cached, lockHeld,
                   acquired, released, clock, timestamp, tsWrites, tsRaised,
                   nProjects, pidx, projects_ok, projects_fail, processed,
                   raisedAt, exitCode, uncaught>>
    /\ UNCHANGED <<instVars, provVars, tsReads, concVars>>

\* lines 182-188: the except clause.  The argument of nagios_reporter.cache
\* reads the global SYNC_MUK_USERS_LOGFILE, which the module never binds (it
\* binds SYNC_MUK_PROJECTS_LOGFILE, line 43): a NameError leaves the handler
\* before cache, lockfile.release() and sys.exit are reached, and the
\* interpreter ends with the uncaught exception.
ExceptHandler ==
    /\ pc = "except"
    /\ uncaught' = TRUE
    /\ exitCode' = EXIT_UNCAUGHT
    /\ pc' = "done"
    /\ UNCHANGED <<dry_run, nagios, ha_master, cacheFile, cached, lockHeld,
                   acquired, released, clock, timestamp, tsWrites, tsRaised,
                   nProjects, pidx, projects_ok, projects_fail, processed,
                   raisedAt>>
    /\ UNCHANGED <<instVars, provVars, tsReads, concVars>>

\* lines 190-210: outcome evaluation
Evaluate ==
    /\ pc = "eval"
    /\ \E wrRaised \in BOOLEAN :
         /\ (wrRaised => WritesTimestamp(projects_fail, dry_run))
         /\ tsWrites' = IF WritesTimestamp(projects_fail, dry_run)
                        THEN tsWrites + 1 ELSE tsWrites
         /\ timestamp' = IF WritesTimestamp(projects_fail, dry_run) /\ ~wrRaised
                         THEN clock ELSE timestamp
         /\ tsRaised' = wrRaised
         /\ cached' = Append(cached, EvalStatus(projects_fail, dry_run, wrRaised))
    /\ pc' = "release"
    /\ UNCHANGED <<dry_run, nagios, ha_master, cacheFile, lockHeld,
                   acquired, released, clock, nProjects, pidx, projects_ok,
                   projects_fail, processed, raisedAt, exitCode, uncaught>>
    /\ UNCHANGED <<instVars, provVars, tsReads, concVars>>

\* lines 212-215: release_or_bork, then main() returns
ReleaseOrBork ==
    /\ pc = "release"
    /\ released' = released + 1
    /\ lockHeld' = FALSE
    /\ exitCode' = EXIT_RETURN
    /\ pc' = "done"
    /\ UNCHANGED <<dry_run, nagios, ha_master, cacheFile, cached,
                   acquired, clock, timestamp, tsWrites, tsRaised,
                   nProjects, pidx, projects_ok, projects_fail, processed,
                   raisedAt, uncaught>>
    /\ UNCHANGED <<instVars, provVars, tsReads, concVars>>

Next ==
    \/ ReportAndExit
    \/ HAGateStop
    \/ HAGatePass
    \/ LockOrBork
    \/ Bootstrap
    \/ ProcessProject
    \/ LoopEnd
    \/ ExceptHandler
    \/ Evaluate
    \/ ReleaseOrBork

\* nothing of the per-institute code runs during main()
InstIdle ==
    /\ ipc = "idle"
    /\ fidx = 1
    /\ nfs_mounts = <<>>
    /\ statted = {}
    /\ didx = 1
    /\ institute = ""
    /\ changed_users = <<>>
    /\ lookedUp = {}
    /\ statOk = "none"
    /\ uidx = 1
    /\ stepNo = 1
    /\ user_dry = <<>>
    /\ calls = <<>>
    /\ provisioned = {}
    /\ raisedStep = <<>>
    /\ p_error_users = <<>>
    /\ error_users = <<>>
    /\ error_bound = FALSE
    /\ result = <<>>
    /\ iraised = "none"

\* no second call of process(), no read of the timestamp file
ProvIdle ==
    /\ prov = <<>>
    /\ pass = 1
    /\ prov1 = <<>>
    /\ tsReads = 0

\* no concurrent invocation
ConcIdle ==
    /\ cpc = <<>>
    /\ owner = 0
    /\ cleft = <<>>
    /\ cfail = <<>>
    /\ ops = {}

Init == MainInit /\ InstIdle /\ ProvIdle /\ ConcIdle

Spec == Init /\ [][Next]_vars

\* ---------------------------------------------------------------------------
\* force_nfs_mounts, process_institute, process
\* ---------------------------------------------------------------------------

\* muk.institutes (vsc.config.base, imported on line 26)
Institutes == <<ANTWERPEN, BRUSSEL, GENT, LEUVEN>>

\* mutant of Steps: the home directory is created before the fallback quota
Steps_mut == <<"create_scratch_fileset", "create_home_dir", "populate_scratch_fallback">>

\* the three provisioning steps in the order of lines 93-95
Steps == <<"create_scratch_fileset", "populate_scratch_fallback", "create_home_dir">>

\* mutant of Skips: no institute is excluded
Skips_mut(inst) == FALSE

\* line 106: if institute == BRUSSEL
Skips(inst) == inst = BRUSSEL

\* mutant of MountFailErrors: nobody is recorded as failed
MountFailErrors_mut(users) == <<>>

\* line 69: error_users = changed_users
MountFailErrors(users) == users

\* mutant of OnStepRaise: the failed user is not appended
OnStepRaise_mut(errs, u) == errs

\* line 98: error_users.append(user)
OnStepRaise(errs, u) == Append(errs, u)

\* mutant of CountResult: the failures are not subtracted
CountResult_mut(nChanged, nErr) == <<nChanged, nErr>>

\* lines 71-76: the counts returned, as <<ok, fail>>
CountResult(nChanged, nErr) == <<nChanged - nErr, nErr>>

\* mutant of OnLookupRaise: the exception is swallowed and the function goes
\* on with the stat
OnLookupRaise_mut == "stat"

\* line 55 is outside every try block: an exception of MukUser.lookup leaves
\* process_institute
OnLookupRaise == "raised"

\* mutant of AfterStat: process() is called although the stat failed
AfterStat_mut(ok) == "process"

\* lines 62-69: after os.stat, process() is called (line 64) when it
\* returned, and the counting of line 71 follows when it raised
AfterStat(ok) == IF ok THEN "process" ELSE "count"

\* mutant of ThreadDryRun: the option is not copied to the user
ThreadDryRun_mut(opt, flag) == flag

\* lines 90-91: if options.dry_run: user.dry_run = True
ThreadDryRun(opt, flag) == IF opt THEN TRUE ELSE flag

\* mutant of StepMayRaise: a step can fail although its artefact exists
StepMayRaise_mut(present, step) == TRUE

\* MukUser.create_scratch_fileset / populate_scratch_fallback /
\* create_home_dir: a step whose artefact already exists is a no-op and does
\* not fail
StepMayRaise(present, step) == step \notin present

\* the artefacts that exist after a step completed; with user.dry_run set
\* nothing is created
StepEffect(present, step, dry) ==
    IF dry THEN present ELSE present \cup {step}

\* the set of elements of a sequence
Range(seq) == {seq[i] : i \in 1..Len(seq)}

\* lines 102-115: one iteration of the loop of force_nfs_mounts
ForceNfsMounts ==
    /\ ipc = "force_nfs_mounts"
    /\ fidx <= Len(Institutes)
    /\ fidx' = fidx + 1
    /\ IF Skips(Institutes[fidx])
       THEN UNCHANGED <<nfs_mounts, statted>>
       ELSE /\ statted' = statted \cup {Institutes[fidx]}
            /\ \E ok \in BOOLEAN :
                 nfs_mounts' = IF ok THEN Append(nfs_mounts, Institutes[fidx])
                               ELSE nfs_mounts
    /\ UNCHANGED <<ipc, didx, institute, changed_users, lookedUp, statOk,
                   uidx, stepNo, user_dry, calls, provisioned, raisedStep,
                   p_error_users, error_users, error_bound, result, iraised>>
    /\ UNCHANGED <<mainVars, tsReads, concVars>>
    /\ UNCHANGED provVars

\* line 115: return nfs_mounts
ForceNfsMountsReturn ==
    /\ ipc = "force_nfs_mounts"
    /\ fidx > Len(Institutes)
    /\ ipc' = "driver"
    /\ didx' = 1
    /\ UNCHANGED <<fidx, nfs_mounts, statted, institute, changed_users,
                   lookedUp, statOk, uidx, stepNo, user_dry, calls,
                   provisioned, raisedStep, p_error_users, error_users,
                   error_bound, result, iraised>>
    /\ UNCHANGED <<mainVars, tsReads, concVars>>
    /\ UNCHANGED provVars

\* the caller of force_nfs_mounts and process_institute, which main() lacks:
\* process_institute is called for every institute of nfs_mounts in turn
\* (run coordinator, per-institute processing)
InstituteLoop ==
    /\ ipc = "driver"
    /\ IF didx <= Len(nfs_mounts)
       THEN /\ institute' = nfs_mounts[didx]
            /\ didx' = didx + 1
            /\ ipc' = "lookup"
       ELSE /\ ipc' = "finished"
            /\ UNCHANGED <<institute, didx>>
    /\ changed_users' = <<>>
    /\ statOk' = "none"
    /\ uidx' = 1
    /\ stepNo' = 1
    /\ user_dry' = <<>>
    /\ calls' = <<>>
    /\ raisedStep' = <<>>
    /\ p_error_users' = <<>>
    /\ error_users' = <<>>
    /\ error_bound' = FALSE
    /\ result' = <<>>
    /\ UNCHANGED <<fidx, nfs_mounts, statted, lookedUp, provisioned, iraised>>
    /\ UNCHANGED <<mainVars, tsReads, concVars>>
    /\ prov' = <<>>
    /\ UNCHANGED <<pass, prov1>>

\* lines 54-57: MukUser.lookup; an exception leaves process_institute
Lookup ==
    /\ ipc = "lookup"
    /\ lookedUp' = lookedUp \cup {institute}
    /\ \/ \E n \in 0..MaxUsers :
            /\ changed_users' = [i \in 1..n |-> i]
            /\ user_dry' = [i \in 1..n |-> FALSE]
            /\ raisedStep' = [i \in 1..n |-> 0]
            /\ ipc' = "stat"
            /\ UNCHANGED iraised
       \/ /\ ipc' = OnLookupRaise
          /\ iraised' = "lookup"
          /\ UNCHANGED <<changed_users, user_dry, raisedStep>>
    /\ UNCHANGED <<fidx, nfs_mounts, statted, didx, institute, statOk, uidx,
                   stepNo, calls, provisioned, p_error_users, error_users,
                   error_bound, result>>
    /\ UNCHANGED <<mainVars, tsReads, concVars>>
    /\ prov' = [i \in 1..Len(changed_users') |-> {}]
    /\ UNCHANGED <<pass, prov1>>

\* lines 59-62 and 67-69: the stat of the NFS link; line 88 when it succeeds
Stat ==
    /\ ipc = "stat"
    /\ \E ok \in BOOLEAN :
         IF ok
         THEN /\ statOk' = "ok"
              /\ p_error_users' = <<>>
              /\ uidx' = 1
              /\ ipc' = AfterStat(ok)
              /\ UNCHANGED <<error_users, error_bound>>
         ELSE /\ statOk' = "fail"
              /\ error_users' = MountFailErrors(changed_users)
              /\ error_bound' = TRUE
              /\ ipc' = AfterStat(ok)
              /\ UNCHANGED <<p_error_users, uidx>>
    /\ UNCHANGED <<fidx, nfs_mounts, statted, didx, institute, changed_users,
                   lookedUp, stepNo, user_dry, calls, provisioned, raisedStep,
                   result, iraised>>
    /\ UNCHANGED <<mainVars, tsReads, concVars>>
    /\ UNCHANGED provVars

\* lines 89-91: the next user of the loop, dry_run threaded into it
NextUser ==
    /\ ipc = "process"
    /\ uidx <= Len(changed_users)
    /\ user_dry' = [user_dry EXCEPT ![uidx] = ThreadDryRun(dry_run, @)]
    /\ stepNo' = 1
    /\ ipc' = "step"
    /\ UNCHANGED <<fidx, nfs_mounts, statted, didx, institute, changed_users,
                   lookedUp, statOk, uidx, calls, provisioned, raisedStep,
                   p_error_users, error_users, error_bound, result, iraised>>
    /\ UNCHANGED <<mainVars, tsReads, concVars>>
    /\ UNCHANGED provVars

\* lines 92-98: one provisioning step of the current user; when it raises
\* the except clause appends the user and the loop goes on
Step ==
    /\ ipc = "step"
    /\ calls' = Append(calls, <<changed_users[uidx], Steps[stepNo], user_dry[uidx]>>)
    /\ provisioned' = provisioned \cup {institute}
    /\ \E raises \in BOOLEAN :
         /\ raises => StepMayRaise(prov[uidx], Steps[stepNo])
         /\ prov' = IF raises THEN prov
                    ELSE [prov EXCEPT
                            ![uidx] = StepEffect(@, Steps[stepNo], user_dry[uidx])]
         /\ IF raises
            THEN /\ raisedStep' = [raisedStep EXCEPT ![uidx] = stepNo]
                 /\ p_error_users' = OnStepRaise(p_error_users, changed_users[uidx])
                 /\ uidx' = uidx + 1
                 /\ ipc' = "process"
                 /\ UNCHANGED stepNo
            ELSE /\ IF stepNo < Len(Steps)
                    THEN /\ stepNo' = stepNo + 1
                         /\ UNCHANGED <<uidx, ipc>>
                    ELSE /\ uidx' = uidx + 1
                         /\ ipc' = "process"
                         /\ UNCHANGED stepNo
                 /\ UNCHANGED <<raisedStep, p_error_users>>
    /\ UNCHANGED <<fidx, nfs_mounts, statted, didx, institute, changed_users,
                   lookedUp, statOk, user_dry, error_users, error_bound,
                   result, iraised>>
    /\ UNCHANGED <<mainVars, tsReads, concVars>>
    /\ UNCHANGED <<pass, prov1>>

\* line 100 and line 64: process returns, error_users is assigned
ProcessReturn ==
    /\ ipc = "process"
    /\ uidx > Len(changed_users)
    /\ error_users' = p_error_users
    /\ error_bound' = TRUE
    /\ ipc' = "count"
    /\ UNCHANGED <<fidx, nfs_mounts, statted, didx, institute, changed_users,
                   lookedUp, statOk, uidx, stepNo, user_dry, calls,
                   provisioned, raisedStep, p_error_users, result, iraised>>
    /\ UNCHANGED <<mainVars, tsReads, concVars>>
    /\ UNCHANGED provVars

\* lines 63-66: an exception leaves process() (raised outside its per-user
\* try); it is logged and error_users stays unassigned
ProcessRaises ==
    /\ ipc = "process"
    /\ uidx <= Len(changed_users)
    /\ ipc' = "count"
    /\ UNCHANGED <<fidx, nfs_mounts, statted, didx, institute, changed_users,
                   lookedUp, statOk, uidx, stepNo, user_dry, calls,
                   provisioned, raisedStep, p_error_users, error_users,
                   error_bound, result, iraised>>
    /\ UNCHANGED <<mainVars, tsReads, concVars>>
    /\ UNCHANGED provVars

\* lines 71-76: the counts; len(error_users) raises UnboundLocalError when
\* error_users was never assigned
Count ==
    /\ ipc = "count"
    /\ IF error_bound
       THEN /\ result' = CountResult(Len(changed_users), Len(error_users))
            /\ ipc' = "driver"
            /\ UNCHANGED iraised
       ELSE /\ iraised' = "unbound"
            /\ ipc' = "raised"
            /\ UNCHANGED result
    /\ UNCHANGED <<fidx, nfs_mounts, statted, didx, institute, changed_users,
                   lookedUp, statOk, uidx, stepNo, user_dry, calls,
                   provisioned, raisedStep, p_error_users, error_users,
                   error_bound>>
    /\ UNCHANGED <<mainVars, tsReads, concVars>>
    /\ UNCHANGED provVars

NextInst ==
    \/ ForceNfsMounts
    \/ ForceNfsMountsReturn
    \/ InstituteLoop
    \/ Lookup
    \/ Stat
    \/ NextUser
    \/ Step
    \/ ProcessReturn
    \/ ProcessRaises
    \/ Count

\* main() is not running: only the option the per-institute code reads varies
MainIdle ==
    /\ pc = "idle"
    /\ dry_run \in BOOLEAN
    /\ nagios = FALSE
    /\ ha_master = TRUE
    /\ cacheFile = "none"
    /\ cached = <<>>
    /\ lockHeld = FALSE
    /\ acquired = 0
    /\ released = 0
    /\ clock = 1
    /\ timestamp = 0
    /\ tsWrites = 0
    /\ tsRaised = FALSE
    /\ nProjects = 0
    /\ pidx = 1
    /\ projects_ok = 0
    /\ projects_fail = 0
    /\ processed = 0
    /\ raisedAt = NoExit
    /\ exitCode = NoExit
    /\ uncaught = FALSE

InstStart ==
    /\ ipc = "force_nfs_mounts"
    /\ fidx = 1
    /\ nfs_mounts = <<>>
    /\ statted = {}
    /\ didx = 1
    /\ institute = ""
    /\ changed_users = <<>>
    /\ lookedUp = {}
    /\ statOk = "none"
    /\ uidx = 1
    /\ stepNo = 1
    /\ user_dry = <<>>
    /\ calls = <<>>
    /\ provisioned = {}
    /\ raisedStep = <<>>
    /\ p_error_users = <<>>
    /\ error_users = <<>>
    /\ error_bound = FALSE
    /\ result = <<>>
    /\ iraised = "none"

InitInst == MainIdle /\ InstStart /\ ProvIdle /\ ConcIdle

SpecInst == InitInst /\ [][NextInst]_vars

\* ---------------------------------------------------------------------------
\* Properties
\* ---------------------------------------------------------------------------

\* main() went through outcome evaluation (lines 190-210)
Evaluated == pc = "release" \/ (pc = "done" /\ released = 1)

\* the run ends clean: evaluated with no failed project and without dry-run
CleanRun == Evaluated /\ projects_fail = 0 /\ ~dry_run

\* C1: write_timestamp is invoked (once) exactly in the runs that reach
\* outcome evaluation with a fail count of 0 and dry-run unset; as long as it
\* is not invoked the timestamp file keeps its contents.
C1_TimestampIffCleanRun ==
    /\ [](/\ tsWrites <= 1
          /\ (tsWrites = 1 => CleanRun)
          /\ (pc = "done" /\ CleanRun => tsWrites = 1))
    /\ [][tsWrites' = tsWrites => timestamp' = timestamp]_vars

C1_Witness ==
    /\ pc = "done"
    /\ Evaluated
    /\ projects_fail = 0
    /\ ~dry_run
    /\ tsWrites = 1
    /\ timestamp = clock

\* C2: a run that acquired the lock has released it exactly once when the
\* process terminates, on every exit path.
C2_LockReleasedOnce ==
    (pc = "done" /\ acquired = 1) => (released = 1 /\ ~lockHeld)

\* C3: when an exception is raised between lock acquisition and the end of
\* entity processing, the run ends with a CRITICAL report cached, the lock
\* released and the CRITICAL exit code, and no entity is processed after the
\* exception.
C3_ExceptionReportsCritical ==
    (pc = "done" /\ raisedAt # NoExit) =>
        /\ cached = <<"CRITICAL">>
        /\ released = 1
        /\ ~lockHeld
        /\ ~uncaught
        /\ exitCode = NAGIOS_EXIT_CRITICAL
        /\ processed = raisedAt

\* the provisioning steps invoked so far for the user at position u
StepsOf(u) == SelectSeq(calls, LAMBDA c : c[1] = changed_users[u])

\* C4: in process(), a user one of whose steps raised is in the failed list,
\* no step after the raising one was invoked for it, and when process()
\* returns every user of the list has been attempted.
C4_FailedEntityIsolated ==
    /\ \A u \in 1..Len(raisedStep) :
         raisedStep[u] > 0 =>
           /\ changed_users[u] \in Range(p_error_users)
           /\ Len(StepsOf(u)) = raisedStep[u]
           /\ \A k \in 1..raisedStep[u] : StepsOf(u)[k][2] = Steps[k]
    /\ (ipc = "count" /\ statOk = "ok" /\ error_bound) =>
         \A u \in 1..Len(changed_users) :
           Len(StepsOf(u)) >= 1 /\ StepsOf(u)[1][2] = Steps[1]

C4_Witness ==
    /\ ipc = "count"
    /\ statOk = "ok"
    /\ error_bound
    /\ Len(changed_users) = 2
    /\ raisedStep[1] = 2
    /\ raisedStep[2] = 0
    /\ Len(StepsOf(2)) = 3

\* C5: when the stat of the institute's NFS link fails, no provisioning step
\* is invoked for the institute and process_institute returns ok = 0 and
\* fail = the number of changed users.
C5_MountFailureFailsAll ==
    statOk = "fail" =>
        /\ calls = <<>>
        /\ ipc \in {"count", "driver"}
        /\ (ipc = "driver" => result = <<0, Len(changed_users)>>)

C5_Witness ==
    /\ statOk = "fail"
    /\ ipc = "driver"
    /\ Len(changed_users) = 2
    /\ result = <<0, 2>>

NoSideEffects ==
    /\ acquired = 0
    /\ ~lockHeld
    /\ processed = 0
    /\ tsWrites = 0
    /\ pc \in {"start", "done"}

\* C7 as stated: with --nagios the run ends with exit code 0, and no lock,
\* no new report, no lookup or provisioning and no timestamp write.
C7_NagiosExitsZero ==
    nagios =>
        /\ NoSideEffects
        /\ cached = <<>>
        /\ (pc = "done" => exitCode = 0)

\* C7 amended: with --nagios the run ends inside report_and_exit with the
\* status code of the report held by the cache file (0 exactly when that
\* report is OK), and no lock, no new report, no lookup or provisioning and
\* no timestamp write.
C7_NagiosReadOnly ==
    nagios =>
        /\ NoSideEffects
        /\ cached = <<>>
        /\ (pc = "done" =>
              /\ ~uncaught
              /\ exitCode \in {NAGIOS_EXIT_OK, NAGIOS_EXIT_WARNING,
                               NAGIOS_EXIT_CRITICAL, NAGIOS_EXIT_UNKNOWN}
              /\ (exitCode = NAGIOS_EXIT_OK <=> cacheFile = "OK")
              /\ (exitCode = NAGIOS_EXIT_WARNING <=> cacheFile = "WARNING")
              /\ (exitCode = NAGIOS_EXIT_CRITICAL <=> cacheFile = "CRITICAL"))

C7_Witness ==
    /\ pc = "done"
    /\ nagios
    /\ cacheFile = "CRITICAL"
    /\ exitCode = NAGIOS_EXIT_CRITICAL

\* C8: when this is not the HA master the run caches one WARNING report and
\* exits with the WARNING code, and never acquires the lock, processes an
\* entity or writes the timestamp.
C8_HAGateStops ==
    (~nagios /\ ~ha_master) =>
        /\ NoSideEffects
        /\ (pc = "done" =>
              /\ cached = <<"WARNING">>
              /\ exitCode = NAGIOS_EXIT_WARNING
              /\ ~uncaught)

C8_Witness ==
    /\ pc = "done"
    /\ ~nagios
    /\ ~ha_master
    /\ cached = <<"WARNING">>
    /\ exitCode = NAGIOS_EXIT_WARNING

\* the user at position u went through its three steps without an exception
Completed(u) == raisedStep[u] = 0 /\ Len(StepsOf(u)) = Len(Steps)

\* C9: when the mount check passed and process_institute returns, ok is the
\* number of users whose three steps completed, fail the number of users with
\* a raising step, and no completed user is in the failed list.
C9_CountsMatchOutcomes ==
    (ipc = "driver" /\ statOk = "ok" /\ result # <<>>) =>
        LET users == 1..Len(changed_users) IN
        /\ result[1] = Cardinality({u \in users : Completed(u)})
        /\ result[2] = Cardinality({u \in users : raisedStep[u] > 0})
        /\ \A u \in users : Completed(u) => changed_users[u] \notin Range(error_users)
        /\ \A u \in users : Completed(u) \/ raisedStep[u] > 0

C9_Witness ==
    /\ ipc = "driver"
    /\ statOk = "ok"
    /\ result = <<1, 1>>
    /\ Completed(1)
    /\ raisedStep[2] = 3

\* C10: after outcome evaluation exactly one report is cached by it; it is
\* OK exactly when the fail count is 0 and timestamp persistence did not
\* raise, and WARNING otherwise.
C10_ReportStatus ==
    Evaluated =>
        /\ Len(cached) = 1
        /\ cached[1] \in {"OK", "WARNING"}
        /\ (cached[1] = "OK" <=> (projects_fail = 0 /\ ~tsRaised))

C10_Witness ==
    /\ pc = "done"
    /\ Evaluated
    /\ projects_fail = 0
    /\ ~dry_run
    /\ tsRaised
    /\ cached = <<"WARNING">>

\* C11: every run that is not the --nagios branch has cached exactly one
\* health report when the process terminates.
C11_OneReportPerRun ==
    (pc = "done" /\ ~nagios) => Len(cached) = 1

\* ---------------------------------------------------------------------------
\* Overlapping invocations of the script: main() of every invocation, reduced
\* to its use of the lockfile, of process_project and of write_timestamp.
\* lock_or_bork succeeds when no lockfile exists and ends the run otherwise.
\* ---------------------------------------------------------------------------

Procs == 1..NumProcs

\* lines 141-151: the --nagios branch and the HA gate end the run before the
\* lock; otherwise the run goes on to lock_or_bork
CGate(p) ==
    /\ cpc[p] = "start"
    /\ \E stop \in BOOLEAN :
         cpc' = [cpc EXCEPT ![p] = IF stop THEN "done" ELSE "lock"]
    /\ UNCHANGED <<owner, cleft, cfail, ops>>
    /\ UNCHANGED <<mainVars, instVars, provVars, tsReads>>

\* lines 153-154: lock_or_bork
CLockOrBork(p) ==
    /\ cpc[p] = "lock"
    /\ IF owner = 0
       THEN /\ owner' = p
            /\ cpc' = [cpc EXCEPT ![p] = "bootstrap"]
       ELSE /\ cpc' = [cpc EXCEPT ![p] = "done"]
            /\ UNCHANGED owner
    /\ UNCHANGED <<cleft, cfail, ops>>
    /\ UNCHANGED <<mainVars, instVars, provVars, tsReads>>

\* lines 157-174: the bootstrap; it yields the projects or raises
CBootstrap(p) ==
    /\ cpc[p] = "bootstrap"
    /\ \/ \E n \in 0..MaxProjects :
            /\ cleft' = [cleft EXCEPT ![p] = n]
            /\ cpc' = [cpc EXCEPT ![p] = "loop"]
       \/ /\ cpc' = [cpc EXCEPT ![p] = "except"]
          /\ UNCHANGED cleft
    /\ UNCHANGED <<owner, cfail, ops>>
    /\ UNCHANGED <<mainVars, instVars, provVars, tsReads>>

\* lines 176-180: one process_project call
CProcessProject(p) ==
    /\ cpc[p] = "loop"
    /\ cleft[p] > 0
    /\ ops' = ops \cup {<<p, "provision", owner = p>>}
    /\ \E r \in process_project_outcomes :
         CASE r = "ok" ->
                /\ cleft' = [cleft EXCEPT ![p] = @ - 1]
                /\ UNCHANGED <<cfail, cpc>>
           [] r = "fail" ->
                /\ cleft' = [cleft EXCEPT ![p] = @ - 1]
                /\ cfail' = [cfail EXCEPT ![p] = TRUE]
                /\ UNCHANGED cpc
           [] OTHER ->
                /\ cpc' = [cpc EXCEPT ![p] = "except"]
                /\ UNCHANGED <<cleft, cfail>>
    /\ UNCHANGED owner
    /\ UNCHANGED <<mainVars, instVars, provVars, tsReads>>

\* line 176: the loop is exhausted
CLoopEnd(p) ==
    /\ cpc[p] = "loop"
    /\ cleft[p] = 0
    /\ cpc' = [cpc EXCEPT ![p] = "eval"]
    /\ UNCHANGED <<owner, cleft, cfail, ops>>
    /\ UNCHANGED <<mainVars, instVars, provVars, tsReads>>

\* lines 182-188: the except clause ends with a NameError before
\* lockfile.release(); the lockfile stays
CExceptHandler(p) ==
    /\ cpc[p] = "except"
    /\ cpc' = [cpc EXCEPT ![p] = "done"]
    /\ UNCHANGED <<owner, cleft, cfail, ops>>
    /\ UNCHANGED <<mainVars, instVars, provVars, tsReads>>

\* lines 197-210: write_timestamp when nothing failed and dry_run is unset
CEvaluate(p) ==
    /\ cpc[p] = "eval"
    /\ \E dry \in BOOLEAN :
         ops' = IF WritesTimestamp(IF cfail[p] THEN 1 ELSE 0, dry)
                THEN ops \cup {<<p, "timestamp", owner = p>>}
                ELSE ops
    /\ cpc' = [cpc EXCEPT ![p] = "release"]
    /\ UNCHANGED <<owner, cleft, cfail>>
    /\ UNCHANGED <<mainVars, instVars, provVars, tsReads>>

\* lines 212-215: release_or_bork removes the lockfile, main() returns
CReleaseOrBork(p) ==
    /\ cpc[p] = "release"
    /\ owner' = IF owner = p THEN 0 ELSE owner
    /\ cpc' = [cpc EXCEPT ![p] = "done"]
    /\ UNCHANGED <<cleft, cfail, ops>>
    /\ UNCHANGED <<mainVars, instVars, provVars, tsReads>>

ConcStart ==
    /\ cpc = [p \in Procs |-> "start"]
    /\ owner = 0
    /\ cleft = [p \in Procs |-> 0]
    /\ cfail = [p \in Procs |-> FALSE]
    /\ ops = {}

InitConc == MainIdle /\ dry_run = FALSE /\ InstIdle /\ ProvIdle /\ ConcStart

NextConc ==
    \/ \E p \in Procs : CGate(p)
    \/ \E p \in Procs : CLockOrBork(p)
    \/ \E p \in Procs : CBootstrap(p)
    \/ \E p \in Procs : CProcessProject(p)
    \/ \E p \in Procs : CLoopEnd(p)
    \/ \E p \in Procs : CExceptHandler(p)
    \/ \E p \in Procs : CEvaluate(p)
    \/ \E p \in Procs : CReleaseOrBork(p)

SpecConc == InitConc /\ [][NextConc]_vars

\* positions of main() between lock acquisition and lock release
Locked == {"bootstrap", "loop", "except", "eval", "release"}

\* C12: at most one invocation is between lock acquisition and lock release,
\* every provisioning call and timestamp write was made by the invocation
\* holding the lock, and an invocation that has ended no longer holds the
\* lock, so that a later one can acquire it.
C12_LockProtectsRun ==
    /\ Cardinality({p \in Procs : cpc[p] \in Locked}) <= 1
    /\ \A op \in ops : op[3]
    /\ \A p \in Procs : cpc[p] = "done" => owner # p

\* C13 as stated: when MukUser.lookup raises for an institute, no
\* provisioning step is invoked for it and process_institute reports all of
\* its entities as failed (a result with ok = 0).
C13_LookupFailureFailsAll ==
    iraised = "lookup" =>
        /\ calls = <<>>
        /\ institute \notin provisioned
        /\ result # <<>>
        /\ result[1] = 0

\* C13 amended: when MukUser.lookup raises for an institute, the exception
\* leaves process_institute: no mount check is made, no provisioning step is
\* invoked for the institute and no result is returned.
C13_LookupFailurePropagates ==
    iraised = "lookup" =>
        /\ ipc = "raised"
        /\ statOk = "none"
        /\ calls = <<>>
        /\ institute \notin provisioned
        /\ changed_users = <<>>
        /\ ~error_bound
        /\ result = <<>>

C13_Witness ==
    /\ iraised = "lookup"
    /\ ipc = "raised"
    /\ institute = LEUVEN
    /\ provisioned = {ANTWERPEN, GENT}

\* ---------------------------------------------------------------------------
\* process() called twice on the same list of users
\* ---------------------------------------------------------------------------

\* lines 79-88: process(options, users) is entered again with the same users,
\* after its first call returned
Rerun ==
    /\ ipc = "count"
    /\ pass = 1
    /\ pass' = 2
    /\ prov1' = prov
    /\ ipc' = "process"
    /\ uidx' = 1
    /\ stepNo' = 1
    /\ calls' = <<>>
    /\ raisedStep' = [i \in 1..Len(changed_users) |-> 0]
    /\ p_error_users' = <<>>
    /\ error_users' = <<>>
    /\ error_bound' = FALSE
    /\ UNCHANGED <<fidx, nfs_mounts, statted, didx, institute, changed_users,
                   lookedUp, statOk, user_dry, provisioned, result, iraised,
                   prov>>
    /\ UNCHANGED <<mainVars, tsReads, concVars>>

\* process() is about to run on users any of whose artefacts may exist
IdemStart ==
    /\ ipc = "process"
    /\ fidx = 1
    /\ nfs_mounts = <<GENT>>
    /\ statted = {GENT}
    /\ didx = 2
    /\ institute = GENT
    /\ \E n \in 1..MaxUsers :
         /\ changed_users = [i \in 1..n |-> i]
         /\ user_dry = [i \in 1..n |-> FALSE]
         /\ raisedStep = [i \in 1..n |-> 0]
         /\ prov \in [1..n -> SUBSET Range(Steps)]
    /\ lookedUp = {GENT}
    /\ statOk = "ok"
    /\ uidx = 1
    /\ stepNo = 1
    /\ calls = <<>>
    /\ provisioned = {}
    /\ p_error_users = <<>>
    /\ error_users = <<>>
    /\ error_bound = FALSE
    /\ result = <<>>
    /\ iraised = "none"
    /\ pass = 1
    /\ prov1 = <<>>
    /\ tsReads = 0

InitIdem == MainIdle /\ IdemStart /\ ConcIdle

NextIdem ==
    \/ NextUser
    \/ Step
    \/ ProcessReturn
    \/ Rerun

SpecIdem == InitIdem /\ [][NextIdem]_vars

\* every artefact of the user at position u existed when the first call of
\* process() returned
Provisioned1(u) == prov1[u] = Range(Steps)

StepNamesOf(u) == [k \in 1..Len(StepsOf(u)) |-> StepsOf(u)[k][2]]

\* the prefixes of the order fileset, fallback, home directory
OrderedPrefixes ==
    { <<>>,
      <<"create_scratch_fileset">>,
      <<"create_scratch_fileset", "populate_scratch_fallback">>,
      <<"create_scratch_fileset", "populate_scratch_fallback", "create_home_dir">> }

\* C15: for every user the steps invoked are a prefix of create_scratch_fileset,
\* populate_scratch_fallback, create_home_dir, each at most once, and nothing
\* is invoked for a user after one of its steps raised.
C15_StepsInOrderOnce ==
    \A u \in 1..Len(changed_users) :
        /\ StepNamesOf(u) \in OrderedPrefixes
        /\ (raisedStep[u] > 0 => Len(StepsOf(u)) = raisedStep[u])
        /\ (u > uidx => StepsOf(u) = <<>>)

C15_Witness ==
    /\ ipc = "count"
    /\ Len(changed_users) = 2
    /\ raisedStep[1] = 1
    /\ Len(StepsOf(1)) = 1
    /\ raisedStep[2] = 0
    /\ Len(StepsOf(2)) = 3

\* process_institute is running for the current institute
InProcessInstitute == ipc \in {"lookup", "stat", "process", "step", "count", "raised"}

\* C16 as stated: in process_institute the mount check comes before the
\* entity lookup, which comes before any provisioning step.
C16_MountCheckBeforeLookup ==
    InProcessInstitute =>
        /\ (institute \in lookedUp => statOk # "none")
        /\ (calls # <<>> => institute \in lookedUp)

\* C16 amended: in process_institute the entity lookup comes first, then the
\* mount check, and provisioning steps are invoked only after the mount check
\* succeeded.
C16_LookupThenMountCheck ==
    InProcessInstitute =>
        /\ (ipc = "lookup" => statOk = "none" /\ calls = <<>>)
        /\ (statOk # "none" => institute \in lookedUp)
        /\ (calls # <<>> => statOk = "ok")

C16_Witness ==
    /\ ipc = "step"
    /\ institute \in lookedUp
    /\ statOk = "ok"
    /\ Len(calls) = 1

\* C17: with dry_run set, every provisioning step is invoked on a user whose
\* dry_run flag is true, and a user none of whose steps raised still gets the
\* three steps in order; with dry_run unset no user's flag is changed.
C17_DryRunThreaded ==
    /\ dry_run =>
         /\ \A i \in 1..Len(calls) : calls[i][3]
         /\ \A u \in 1..Len(changed_users) :
              (u < uidx /\ raisedStep[u] = 0) =>
                 StepNamesOf(u) = <<"create_scratch_fileset",
                                    "populate_scratch_fallback",
                                    "create_home_dir">>
    /\ ~dry_run => \A u \in 1..Len(user_dry) : ~user_dry[u]

C17_Witness ==
    /\ dry_run
    /\ ipc = "count"
    /\ Len(changed_users) = 1
    /\ Len(calls) = 3
    /\ calls[3] = <<1, "create_home_dir", TRUE>>
    /\ user_dry = <<TRUE>>

\* C18: a run that is past lock acquisition and bootstrap has read the
\* persisted timestamp exactly once, before any entity is looked up or
\* processed.
C18_TimestampReadOnce ==
    (acquired = 1 /\ pc \in {"loop", "eval", "release"}) => tsReads = 1

\* the exit code that stands for a report status
StatusCode(s) ==
    CASE s = "OK" -> NAGIOS_EXIT_OK
      [] s = "WARNING" -> NAGIOS_EXIT_WARNING
      [] OTHER -> NAGIOS_EXIT_CRITICAL

\* C19 as stated: when main terminates after caching a report, the exit
\* status is the status code of the last report cached.
C19_ExitMatchesReport ==
    (pc = "done" /\ cached # <<>>) =>
        /\ ~uncaught
        /\ exitCode = StatusCode(cached[Len(cached)])

\* C19 amended: a run that ends in a sys.exit after caching a report (the HA
\* gate) exits with that report's status code; a run that went through
\* outcome evaluation returns from main and exits with 0, whatever the status
\* of the report it cached.
C19_ExitAfterReport ==
    (pc = "done" /\ cached # <<>>) =>
        /\ ~uncaught
        /\ exitCode = IF Evaluated THEN EXIT_RETURN
                      ELSE StatusCode(cached[Len(cached)])

C19_Witness ==
    /\ pc = "done"
    /\ Evaluated
    /\ tsRaised
    /\ cached = <<"WARNING">>
    /\ exitCode = EXIT_RETURN

\* C20: once the lookup has succeeded, process_institute ends by returning
\* a result, without raising, with ok + fail = the number of users and
\* 0 <= fail <= that number.
C20_AlwaysReturnsCounts ==
    (ipc \in {"driver", "raised"} /\ institute \in lookedUp /\ iraised # "lookup") =>
        /\ iraised = "none"
        /\ result # <<>>
        /\ result[1] + result[2] = Len(changed_users)
        /\ result[2] >= 0
        /\ result[2] <= Len(changed_users)

====
